---- MODULE Spec2Model ----
(***************************************************************************)
(* Model of ETL/bank_projects.py: the bank market-capitalisation ETL       *)
(* script.  log_progress, extract, transform, load_to_csv, load_to_db and  *)
(* run_query are modelled from their code, and the script body (lines      *)
(* 105-143) as a sequential process whose position is pc.                  *)
(*                                                                         *)
(* Numbers: a float is an integer count of 1/Scale (two decimals), so that *)
(* x * rate and np.round(..., 2) are exact decimal arithmetic with         *)
(* round-half-to-even.  Text is a sequence of one-character strings.       *)
(***************************************************************************)
EXTENDS Integers, Sequences, FiniteSets, TLC

VARIABLES
    pc,            \* position in the script, or in the function under check
    run,           \* which execution of the script this is (1, 2, ...)
    df,            \* the data frame `df`, NoFrame before extract returns
    conn,          \* the sqlite3 connection: "none", "open", "closed"
    csvFile,       \* contents of output_csv_path
    db,            \* Banks.db: a function from table names to row sequences
    logFile,       \* contents of code_log.txt: the messages of its lines
                   \* (the timestamp of a line is left out)
    console,       \* queries whose output this run has printed
    err,           \* the exception that ended the run, "none" otherwise
    hist,          \* history: the stages this run has executed, in order
    logStart,      \* history: Len(logFile) when this run started
    dbBefore,      \* history: db when this run started
    soup,          \* extract: the parsed page (its h2 / tbody elements)
    target_table,  \* extract: the rows of the selected tbody
    exchange_rate, \* transform: the rate table read from csv_path
    df0,           \* transform: the frame passed to the first call
    df1            \* transform: the frame returned by the first call

vars == <<pc, run, df, conn, csvFile, db, logFile, console, err, hist,
          logStart, dbBefore, soup, target_table, exchange_rate, df0, df1>>

(***************************************************************************)
(* Bounds of the model.                                                    *)
(***************************************************************************)
MaxElems == 3      \* h2 / tbody elements of a page
MaxRows == 3       \* tr rows of a table body, the header row included
MaxRuns == 2       \* executions of the script against the same files

(***************************************************************************)
(* Values.                                                                 *)
(***************************************************************************)
Decimals == 2                      \* np.round(x, 2)
Scale == 10 ^ Decimals

None == [k |-> "None", v |-> 0]
NaN == [k |-> "nan", v |-> 0]
Float(n) == [k |-> "float", v |-> n]
Str(s) == [k |-> "str", v |-> s]

NoFrame == [columns |-> <<>>, rows |-> <<>>]
Unused == "-"

Raise(e) == [ok |-> FALSE, error |-> e, value |-> NoFrame]
Return(x) == [ok |-> TRUE, error |-> "none", value |-> x]

(***************************************************************************)
(* Text: str.strip, str.replace('\n', '') and float().                     *)
(***************************************************************************)
Whitespace == {" ", "\n"}
Digits == <<"0", "1", "2", "3", "4", "5", "6", "7", "8", "9">>

IsDigit(c) == \E i \in 1..Len(Digits) : Digits[i] = c
DigitVal(c) == (CHOOSE i \in 1..Len(Digits) : Digits[i] = c) - 1

RECURSIVE LStrip(_)
LStrip(s) ==
    IF s # <<>> /\ Head(s) \in Whitespace THEN LStrip(Tail(s)) ELSE s

RECURSIVE RStrip(_)
RStrip(s) ==
    IF s # <<>> /\ s[Len(s)] \in Whitespace
    THEN RStrip(SubSeq(s, 1, Len(s) - 1))
    ELSE s

\* str.strip()
Strip(s) == RStrip(LStrip(s))

\* str.replace('\n', '')
RemoveNewlines(s) == SelectSeq(s, LAMBDA c : c # "\n")

RECURSIVE DigitsValue(_)
DigitsValue(s) ==
    IF s = <<>> THEN 0
    ELSE 10 * DigitsValue(SubSeq(s, 1, Len(s) - 1)) + DigitVal(s[Len(s)])

AllDigits(s) == \A i \in 1..Len(s) : IsDigit(s[i])

\* the fraction digits as a count of 1/Scale (texts carry at most Decimals
\* fraction digits)
FracValue(s) == DigitsValue(s) * 10 ^ (Decimals - Len(s))

\* float(text): a decimal literal "d+", "d+.d*" or ".d+" (surrounding
\* whitespace allowed) gives its value; anything else is a ValueError,
\* reported as None.  Signs, exponents, underscores and the words inf and
\* nan, which float() also reads, do not occur in the texts of the model.
ParseFloat(text) ==
    LET s == Strip(text)
        dots == {i \in 1..Len(s) : s[i] = "."}
    IN  IF s = <<>> THEN None
        ELSE IF dots = {} THEN
            IF AllDigits(s) THEN Float(DigitsValue(s) * Scale) ELSE None
        ELSE IF Cardinality(dots) > 1 THEN None
        ELSE LET d == CHOOSE i \in dots : TRUE
                 ip == SubSeq(s, 1, d - 1)
                 fp == SubSeq(s, d + 1, Len(s))
             IN  IF AllDigits(ip) /\ AllDigits(fp) /\ Len(ip) + Len(fp) > 0
                    /\ Len(fp) <= Decimals
                 THEN Float(DigitsValue(ip) * Scale + FracValue(fp))
                 ELSE None

(***************************************************************************)
(* The page.  soup is the sequence of the h2 and tbody elements of the     *)
(* document, in document order; an h2 carries the text of its span, or     *)
(* NoSpan.  A table body is a sequence of tr rows, a row the sequence of   *)
(* the texts of its td cells.                                              *)
(***************************************************************************)
TargetLabel == "By market capitalization"
OtherLabel == "By total assets"
NoSpan == "<no span>"

H2(label) == [tag |-> "h2", span |-> label]
TBody == [tag |-> "tbody", span |-> NoSpan]

Elements == {H2(TargetLabel), H2(OtherLabel), H2(NoSpan), TBody}

SeqsUpTo(S, n) == UNION {[1..k -> S] : k \in 0..n}

Layouts == SeqsUpTo(Elements, MaxElems)

Rank == <<"1">>
NameA == <<"A">>
NameB == <<" ", "B", "\n">>
CapPlain == <<"1", "2">>
CapPadded == <<" ", "2", ".", "5", "\n">>
CapNA == <<"N", "/", "A">>

SampleRows ==
    { <<>>, <<Rank>>, <<Rank, NameA>>,
      <<Rank, NameA, CapPlain>>, <<Rank, NameB, CapPadded>>,
      <<Rank, NameB, CapNA>> }

RowLists == SeqsUpTo(SampleRows, MaxRows)

table_attribs == <<"Name", "MC_USD_Billion">>

(***************************************************************************)
(* extract, lines 38-47: the first tbody whose find_previous('h2').span    *)
(* has the target text.                                                    *)
(***************************************************************************)
\* table.find_previous('h2'): the index of the nearest h2 before i, 0 if none
FindPreviousH2(s, i) ==
    LET before == {j \in 1..(i - 1) : s[j].tag = "h2"}
    IN  IF before = {} THEN 0 ELSE CHOOSE j \in before : \A m \in before : m <= j

Found(i) == [ok |-> TRUE, error |-> "none", index |-> i]
NotFound(e) == [ok |-> FALSE, error |-> e, index |-> 0]

\* the loop of lines 41-44 from element i on, then the test of line 46
RECURSIVE FindFrom(_, _)
FindFrom(s, i) ==
    IF i > Len(s) THEN NotFound("ValueError")
    ELSE IF s[i].tag # "tbody" THEN FindFrom(s, i + 1)
    ELSE LET h == FindPreviousH2(s, i)
         IN  IF h = 0 THEN NotFound("AttributeError")
             ELSE IF s[h].span = NoSpan THEN NotFound("AttributeError")
             ELSE IF s[h].span = TargetLabel THEN Found(i)
             ELSE FindFrom(s, i + 1)

FindTargetTable(s) == FindFrom(s, 1)

(***************************************************************************)
(* extract, lines 49-64: the rows of the target table.                     *)
(***************************************************************************)
\* pd.DataFrame(data, columns): a column holding a float is float64 and
\* its None become NaN; a column of None only stays object and keeps None
DataFrame(data, columns) ==
    LET numeric == \E i \in 1..Len(data) : data[i][columns[2]].k = "float"
        Conv(x) == IF numeric /\ x.k = "None" THEN NaN ELSE x
    IN  [columns |-> columns,
         rows |-> [i \in 1..Len(data) |->
                    [c \in {columns[1], columns[2]} |->
                        IF c = columns[2] THEN Conv(data[i][c]) ELSE data[i][c]]]]

\* lines 53-61 for one row: the record appended, Skip for a short row,
\* IndexError when cols[2] does not exist
Skip == [kind |-> "skip"]
ParseRow(cols, attribs) ==
    IF Len(cols) >= 2 THEN
        IF Len(cols) < 3 THEN [kind |-> "IndexError"]
        ELSE [kind |-> "record",
              rec |-> [c \in {attribs[1], attribs[2]} |->
                        IF c = attribs[1] THEN Str(Strip(cols[2]))
                        ELSE ParseFloat(RemoveNewlines(Strip(cols[3])))]]
    ELSE Skip

\* the loop of lines 52-61 over rows, data being the records so far
RECURSIVE ParseRows(_, _, _)
ParseRows(rows, attribs, data) ==
    IF rows = <<>> THEN Return(DataFrame(data, attribs))
    ELSE LET r == ParseRow(Head(rows), attribs)
         IN  IF r.kind = "IndexError" THEN Raise("IndexError")
             ELSE IF r.kind = "skip" THEN ParseRows(Tail(rows), attribs, data)
             ELSE ParseRows(Tail(rows), attribs, Append(data, r.rec))

\* target_table.find_all('tr')[1:]
DataRows(trs) == IF trs = <<>> THEN <<>> ELSE Tail(trs)

ExtractRows(trs, attribs) == ParseRows(DataRows(trs), attribs, <<>>)

\* extract(url, table_attribs) once the loop of lines 41-44 has ended with
\* found, trs being the rows of the tbody it selected
ExtractFrom(found, trs, attribs) ==
    IF found.ok THEN ExtractRows(trs, attribs) ELSE Raise(found.error)

\* what extract can return or raise, over the pages of the model
ExtractOutcomes ==
    {ExtractFrom(f, trs, table_attribs) :
        f \in {FindTargetTable(s) : s \in Layouts}, trs \in RowLists}

(***************************************************************************)
(* transform, lines 67-82.  The rate source is the file at csv_path.       *)
(***************************************************************************)
Currencies == <<"GBP", "EUR", "INR">>

ColumnOf(cur) == "MC_" \o cur \o "_Billion"

UsualRates == [c \in {"GBP", "EUR", "INR"} |->
                 IF c = "GBP" THEN 80 ELSE IF c = "EUR" THEN 93 ELSE 8295]
NoINR == [c \in {"GBP", "EUR"} |-> IF c = "GBP" THEN 80 ELSE 93]

OtherRates == [c \in {"GBP", "EUR", "INR", "JPY"} |->
                 IF c = "GBP" THEN 75 ELSE IF c = "EUR" THEN 105
                 ELSE IF c = "INR" THEN 8000 ELSE 14700]

RateFiles ==
    { [exists |-> TRUE, columns |-> TRUE, rates |-> UsualRates],
      [exists |-> TRUE, columns |-> TRUE, rates |-> OtherRates],
      [exists |-> TRUE, columns |-> TRUE, rates |-> NoINR],
      [exists |-> TRUE, columns |-> FALSE, rates |-> NoINR],
      [exists |-> FALSE, columns |-> FALSE, rates |-> NoINR] }

RaiseWith(e, frame) == [ok |-> FALSE, error |-> e, value |-> frame]

\* np.round(p / Scale^2, 2) for the exact product p of two counts of
\* 1/Scale: the nearest count of 1/Scale, a tie going to the even one
RoundHalfEven(p) ==
    LET q == p \div Scale
        r == p % Scale
    IN  IF 2 * r > Scale THEN q + 1
        ELSE IF 2 * r < Scale THEN q
        ELSE IF q % 2 = 0 THEN q ELSE q + 1

\* np.round(x * rate, 2) for a float x (NaN stays NaN)
Convert(x, rate) == IF x.k = "nan" THEN NaN ELSE Float(RoundHalfEven(x.v * rate))

\* the assignment always adding a column, also when one of that name is there
SetColumnAppending(frame, name, values) ==
    LET cols == Append(frame.columns, name)
        names == {cols[i] : i \in 1..Len(cols)}
    IN  [columns |-> cols,
         rows |-> [i \in 1..Len(frame.rows) |->
                    [c \in names |-> IF c = name THEN values[i] ELSE frame.rows[i][c]]]]

\* df[name] = values: an existing column is replaced where it stands, a
\* new one is appended after the others
SetColumn(frame, name, values) ==
    LET has == \E i \in 1..Len(frame.columns) : frame.columns[i] = name
        cols == IF has THEN frame.columns ELSE Append(frame.columns, name)
        names == {cols[i] : i \in 1..Len(cols)}
    IN  [columns |-> cols,
         rows |-> [i \in 1..Len(frame.rows) |->
                    [c \in names |-> IF c = name THEN values[i] ELSE frame.rows[i][c]]]]

\* one of the lines 78-80: for each x of df['MC_USD_Billion'] the rate of
\* cur is looked up (KeyError) and multiplied with x (TypeError for None)
AddColumn(frame, cur, dict) ==
    LET n == Len(frame.rows)
        usd(i) == frame.rows[i]["MC_USD_Billion"]
    IN  IF n = 0 THEN Return(SetColumn(frame, ColumnOf(cur), <<>>))
        ELSE IF cur \notin DOMAIN dict THEN RaiseWith("KeyError", frame)
        ELSE IF \E i \in 1..n : usd(i).k = "None" THEN RaiseWith("TypeError", frame)
        ELSE Return(SetColumn(frame, ColumnOf(cur),
                              [i \in 1..n |-> Convert(usd(i), dict[cur])]))

\* lines 78-80 from the k-th currency on
RECURSIVE AddColumns(_, _, _)
AddColumns(frame, dict, k) ==
    IF k > Len(Currencies) THEN Return(frame)
    ELSE LET r == AddColumn(frame, Currencies[k], dict)
         IN  IF r.ok THEN AddColumns(r.value, dict, k + 1) ELSE r

\* transform(df, csv_path), file the contents of csv_path; on an exception
\* value is df as the call left it (df is changed in place)
Transform(frame, file) ==
    IF ~file.exists THEN RaiseWith("FileNotFoundError", frame)
    ELSE IF ~file.columns THEN RaiseWith("KeyError", frame)
    ELSE AddColumns(frame, file.rates, 1)

(***************************************************************************)
(* load_to_csv, load_to_db and run_query, lines 85-103.                    *)
(***************************************************************************)
ColumnValues(frame, i) == [j \in 1..Len(frame.columns) |-> frame.rows[i][frame.columns[j]]]

\* a value as to_csv writes it: NaN and None are the empty field
CsvField(x) == IF x.k \in {"nan", "None"} THEN [k |-> "empty", v |-> 0] ELSE x

\* df.to_csv(output_path, index=False): the header line, then one line
\* per row
ToCsv(frame) ==
    [header |-> frame.columns,
     lines |-> [i \in 1..Len(frame.rows) |->
                 [j \in 1..Len(frame.columns) |-> CsvField(ColumnValues(frame, i)[j])]]]

NoFile == [header |-> <<>>, lines |-> <<>>]

\* a value as to_sql stores it
SqlValue(x) ==
    IF x.k \in {"nan", "None"} THEN [k |-> "NULL", v |-> 0]
    ELSE IF x.k = "float" THEN [k |-> "REAL", v |-> x.v]
    ELSE [k |-> "TEXT", v |-> x.v]

SqlRows(frame) ==
    [i \in 1..Len(frame.rows) |->
        [c \in DOMAIN frame.rows[i] |-> SqlValue(frame.rows[i][c])]]

SqlTable(frame) == [columns |-> frame.columns, rows |-> SqlRows(frame)]

table_name == "Largest_banks"
NoTables == [n \in {} |-> 0]

\* to_sql with if_exists='append': the rows are added to those of the table
ToSqlAppend(database, name, frame) ==
    [n \in (DOMAIN database) \cup {name} |->
        IF n # name THEN database[n]
        ELSE IF name \in DOMAIN database
             THEN [columns |-> frame.columns,
                   rows |-> database[name].rows \o SqlRows(frame)]
             ELSE SqlTable(frame)]

\* df.to_sql(table_name, conn, if_exists='replace', index=False): a table
\* of that name is dropped, then the table is created and filled
ToSql(database, name, frame) ==
    [n \in (DOMAIN database) \cup {name} |->
        IF n = name THEN SqlTable(frame) ELSE database[n]]

DropTable(database, name) == [n \in (DOMAIN database) \ {name} |-> database[n]]

\* what an interrupted to_sql can leave: the old table, no table, or the
\* new table still empty
ToSqlInterrupted(database, name, frame) ==
    { database, DropTable(database, name),
      ToSql(database, name, [frame EXCEPT !.rows = <<>>]) }

NumQueries == 3
Limit == 5

Min(a, b) == IF a < b THEN a ELSE b

RECURSIVE SumOf(_)
SumOf(xs) == IF xs = <<>> THEN 0 ELSE Head(xs).v + SumOf(Tail(xs))

\* pd.read_sql(query_statements[q], conn) with the table as loaded
QueryOutput(database, q) ==
    LET t == database[table_name]
    IN  IF q = 1 THEN [query |-> q, rows |-> t.rows]
        ELSE IF q = 2 THEN
            LET gbp == SelectSeq([i \in 1..Len(t.rows) |-> t.rows[i]["MC_GBP_Billion"]],
                                 LAMBDA x : x.k = "REAL")
            IN  [query |-> q,
                 rows |-> <<[k |-> IF gbp = <<>> THEN "NULL" ELSE "AVG",
                             sum |-> SumOf(gbp), count |-> Len(gbp)]>>]
        ELSE [query |-> q,
              rows |-> [i \in 1..Min(Limit, Len(t.rows)) |-> t.rows[i]["Name"]]]

(***************************************************************************)
(* The script, lines 105-143: its statements in order.                     *)
(***************************************************************************)
\* the connection opened before the CSV file is written
ScriptConnectFirst ==
    << "log_preliminaries", "extract", "log_extraction", "transform",
       "log_transformation", "connect", "log_connection", "load_to_csv",
       "log_csv", "load_to_db", "log_loaded", "run_query",
       "log_complete", "close", "log_closed" >>

\* the connection closed before the queries run
ScriptCloseFirst ==
    << "log_preliminaries", "extract", "log_extraction", "transform",
       "log_transformation", "load_to_csv", "log_csv", "connect",
       "log_connection", "load_to_db", "log_loaded", "close",
       "run_query", "log_complete", "log_closed" >>

Script ==
    << "log_preliminaries", "extract", "log_extraction", "transform",
       "log_transformation", "load_to_csv", "log_csv", "connect",
       "log_connection", "load_to_db", "log_loaded", "run_query",
       "log_complete", "close", "log_closed" >>

LogError == "OSError: code_log.txt"
CsvError == "OSError: Largest_banks_data.csv"

funcVars == <<soup, target_table, exchange_rate, df0, df1>>
histVars == <<logStart, dbBefore>>

\* the statement executed after statement p
Successor(p) ==
    LET i == CHOOSE j \in 1..Len(Script) : Script[j] = p
    IN  IF i = Len(Script) THEN "done" ELSE Script[i + 1]

Messages ==
    << "Preliminaries complete. Initiating ETL process",
       "Data extraction complete. Initiating Transformation process",
       "Data transformation complete. Initiating Loading process",
       "Data saved to CSV file",
       "SQL Connection initiated",
       "Data loaded to Database as a table, Executing queries",
       "Process Complete",
       "Server Connection closed" >>

StageOrder ==
    << "Init", "Extract", "Transform", "SaveCSV", "OpenDB", "SaveDB",
       "RunQueries", "CloseDB", "Done" >>


\* an exception nobody catches ends the script
Abort(e) == pc' = "aborted" /\ err' = e

\* the file opened with 'w': the line replaces what the file held
WriteLine(file, message) == <<message>>

\* the write of lines 26-27 into a file opened with 'a'
AppendLine(file, message) == Append(file, message)

\* log_progress with the write in a try block whose handler passes
LogProgressSwallowing(message, here) ==
    /\ pc = here
    /\ logFile' \in {AppendLine(logFile, message), logFile}
    /\ pc' = Successor(here)
    /\ hist' = IF Successor(here) = "done" THEN Append(hist, "Done") ELSE hist
    /\ UNCHANGED <<run, df, conn, csvFile, db, console, err, histVars, funcVars>>

\* log_progress(message) as the statement here of the script
LogProgress(message, here) ==
    /\ pc = here
    /\ \/ /\ logFile' = AppendLine(logFile, message)
          /\ pc' = Successor(here)
          /\ hist' = IF Successor(here) = "done" THEN Append(hist, "Done") ELSE hist
          /\ err' = err
       \/ /\ Abort(LogError)
          /\ UNCHANGED <<logFile, hist>>
    /\ UNCHANGED <<run, df, conn, csvFile, db, console, histVars, funcVars>>

LogPreliminaries == LogProgress(Messages[1], "log_preliminaries")
LogExtraction == LogProgress(Messages[2], "log_extraction")
LogTransformation == LogProgress(Messages[3], "log_transformation")
LogCsv == LogProgress(Messages[4], "log_csv")
LogConnection == LogProgress(Messages[5], "log_connection")
LogLoaded == LogProgress(Messages[6], "log_loaded")
LogComplete == LogProgress(Messages[7], "log_complete")
LogClosed == LogProgress(Messages[8], "log_closed")

\* line 110: df = extract(url, table_attribs)
ExtractStep ==
    /\ pc = "extract"
    /\ hist' = Append(hist, "Extract")
    /\ \/ \E out \in ExtractOutcomes :
            IF out.ok
            THEN df' = out.value /\ pc' = Successor("extract") /\ err' = err
            ELSE df' = df /\ Abort(out.error)
       \/ df' = df /\ Abort("ConnectionError")
    /\ UNCHANGED <<run, conn, csvFile, db, logFile, console, histVars, funcVars>>

\* line 114: df = transform(df, exchange_rate_csv_path)
TransformStep ==
    /\ pc = "transform"
    /\ hist' = Append(hist, "Transform")
    /\ \E file \in RateFiles :
        LET out == Transform(df, file)
        IN  /\ df' = out.value
            /\ IF out.ok THEN pc' = Successor("transform") /\ err' = err
               ELSE Abort(out.error)
    /\ UNCHANGED <<run, conn, csvFile, db, logFile, console, histVars, funcVars>>

\* line 118: load_to_csv(df, output_csv_path)
LoadToCsv ==
    /\ pc = "load_to_csv"
    /\ hist' = Append(hist, "SaveCSV")
    /\ \/ csvFile' = ToCsv(df) /\ pc' = Successor("load_to_csv") /\ err' = err
       \/ csvFile' \in {csvFile, NoFile} /\ Abort(CsvError)
    /\ UNCHANGED <<run, df, conn, db, logFile, console, histVars, funcVars>>

\* line 122: conn = sqlite3.connect(db_name)
Connect ==
    /\ pc = "connect"
    /\ hist' = Append(hist, "OpenDB")
    /\ \/ conn' = "open" /\ pc' = Successor("connect") /\ err' = err
       \/ conn' = conn /\ Abort("OperationalError")
    /\ UNCHANGED <<run, df, csvFile, db, logFile, console, histVars, funcVars>>

\* line 126: load_to_db(df, conn, table_name)
LoadToDb ==
    /\ pc = "load_to_db"
    /\ hist' = Append(hist, "SaveDB")
    /\ \/ db' = ToSql(db, table_name, df) /\ pc' = Successor("load_to_db") /\ err' = err
       \/ db' \in ToSqlInterrupted(db, table_name, df) /\ Abort("DatabaseError")
    /\ UNCHANGED <<run, df, conn, csvFile, logFile, console, histVars, funcVars>>

\* lines 136-137: one turn of the loop over query_statements
RunQuery ==
    /\ pc = "run_query"
    /\ hist' = IF console = <<>> THEN Append(hist, "RunQueries") ELSE hist
    /\ \/ /\ console' = Append(console, QueryOutput(db, Len(console) + 1))
          /\ pc' = IF Len(console) + 1 = NumQueries
                   THEN Successor("run_query") ELSE "run_query"
          /\ err' = err
       \/ console' = console /\ Abort("DatabaseError")
    /\ UNCHANGED <<run, df, conn, csvFile, db, logFile, histVars, funcVars>>

\* line 142: conn.close()
Close ==
    /\ pc = "close"
    /\ hist' = Append(hist, "CloseDB")
    /\ conn' = "closed"
    /\ pc' = Successor("close")
    /\ UNCHANGED <<run, df, csvFile, db, logFile, console, err, histVars, funcVars>>

\* the script is run again after a completed run, on the files that run
\* left (a run that aborted is the last of its behaviour)
StartRun ==
    /\ pc = "done"
    /\ run < MaxRuns
    /\ run' = run + 1
    /\ pc' = Script[1]
    /\ df' = NoFrame
    /\ conn' = "none"
    /\ console' = <<>>
    /\ err' = "none"
    /\ hist' = <<"Init">>
    /\ logStart' = Len(logFile)
    /\ dbBefore' = db
    /\ UNCHANGED <<csvFile, db, logFile, funcVars>>

NoFunc ==
    /\ soup = <<>>
    /\ target_table = [index |-> 0, rows |-> <<>>]
    /\ exchange_rate = Unused
    /\ df0 = NoFrame
    /\ df1 = NoFrame

Init ==
    /\ pc = Script[1]
    /\ run = 1
    /\ df = NoFrame
    /\ conn = "none"
    /\ csvFile = NoFile
    /\ db = NoTables
    /\ logFile = <<>>
    /\ console = <<>>
    /\ err = "none"
    /\ hist = <<"Init">>
    /\ logStart = 0
    /\ dbBefore = NoTables
    /\ NoFunc

Next ==
    \/ LogPreliminaries
    \/ ExtractStep
    \/ LogExtraction
    \/ TransformStep
    \/ LogTransformation
    \/ LoadToCsv
    \/ LogCsv
    \/ Connect
    \/ LogConnection
    \/ LoadToDb
    \/ LogLoaded
    \/ RunQuery
    \/ LogComplete
    \/ Close
    \/ LogClosed
    \/ StartRun

Spec == Init /\ [][Next]_vars

(***************************************************************************)
(* extract on its own: a page is drawn, lines 38-47 select the table,      *)
(* lines 49-64 read the rows the page has in it.                           *)
(***************************************************************************)
Idle ==
    /\ run = 1
    /\ conn = "none"
    /\ csvFile = NoFile
    /\ db = NoTables
    /\ logFile = <<>>
    /\ console = <<>>
    /\ err = "none"
    /\ hist = <<>>
    /\ logStart = 0
    /\ dbBefore = NoTables

pipeVars == <<run, conn, csvFile, db, logFile, console, hist, logStart, dbBefore>>

InitExtract ==
    /\ pc = "find_table"
    /\ soup \in Layouts
    /\ target_table = [index |-> 0, rows |-> <<>>]
    /\ df = NoFrame
    /\ exchange_rate = Unused
    /\ df0 = NoFrame
    /\ df1 = NoFrame
    /\ Idle

\* lines 38-47
FindTable ==
    /\ pc = "find_table"
    /\ LET found == FindTargetTable(soup)
       IN  IF found.ok
           THEN /\ \E trs \in RowLists :
                     target_table' = [index |-> found.index, rows |-> trs]
                /\ pc' = "parse_rows"
                /\ err' = err
           ELSE /\ target_table' = target_table
                /\ Abort(found.error)
    /\ UNCHANGED <<df, soup, exchange_rate, df0, df1, pipeVars>>

\* lines 49-64
ReadRows ==
    /\ pc = "parse_rows"
    /\ LET out == ExtractFrom(Found(target_table.index), target_table.rows, table_attribs)
       IN  IF out.ok
           THEN df' = out.value /\ pc' = "done" /\ err' = err
           ELSE df' = df /\ Abort(out.error)
    /\ UNCHANGED <<soup, target_table, exchange_rate, df0, df1, pipeVars>>

NextExtract ==
    \/ FindTable
    \/ ReadRows

SpecExtract == InitExtract /\ [][NextExtract]_vars

(***************************************************************************)
(* transform on its own: applied to a frame extract can return, then       *)
(* applied again to its own result with the same rate source.              *)
(***************************************************************************)
Frames == {out.value : out \in {o \in ExtractOutcomes : o.ok}}

InitTransform ==
    /\ pc = "transform"
    /\ df0 \in Frames
    /\ df = df0
    /\ df1 = NoFrame
    /\ exchange_rate \in RateFiles
    /\ soup = <<>>
    /\ target_table = [index |-> 0, rows |-> <<>>]
    /\ Idle

TransformOnce ==
    /\ pc = "transform"
    /\ LET out == Transform(df, exchange_rate)
       IN  /\ df' = out.value
           /\ IF out.ok
              THEN df1' = out.value /\ pc' = "transform_again" /\ err' = err
              ELSE df1' = df1 /\ Abort(out.error)
    /\ UNCHANGED <<soup, target_table, exchange_rate, df0, pipeVars>>

TransformAgain ==
    /\ pc = "transform_again"
    /\ LET out == Transform(df, exchange_rate)
       IN  /\ df' = out.value
           /\ IF out.ok THEN pc' = "done" /\ err' = err ELSE Abort(out.error)
    /\ UNCHANGED <<soup, target_table, exchange_rate, df0, df1, pipeVars>>

NextTransform ==
    \/ TransformOnce
    \/ TransformAgain

SpecTransform == InitTransform /\ [][NextTransform]_vars

(***************************************************************************)
(* Properties.                                                             *)
(***************************************************************************)
IsPrefix(a, b) == Len(a) <= Len(b) /\ SubSeq(b, 1, Len(a)) = a

Last(q) == q[Len(q)]

LogStatements ==
    {"log_preliminaries", "log_extraction", "log_transformation", "log_csv",
     "log_connection", "log_loaded", "log_complete", "log_closed"}

\* the lines this run has appended to the log
RunLog == SubSeq(logFile, logStart + 1, Len(logFile))

\* the stage the run is in the middle of, or was when it aborted, has not
\* completed
StageInProgress ==
    \/ pc = "run_query" /\ console # <<>>
    \/ pc = "aborted" /\ err # LogError

CompletedStages ==
    LET n == Len(SelectSeq(hist, LAMBDA st : st # "Done"))
    IN  IF StageInProgress THEN n - 1 ELSE n

\* C1: the stages of a run execute in the order Init, Extract, Transform,
\* SaveCSV, OpenDB, SaveDB, RunQueries, CloseDB, Done, each at most once;
\* a run that aborted executes nothing more, and the step that aborts it
\* leaves the log and the artifacts of the earlier stages as they are.
C1_StageOrder ==
    /\ [](IsPrefix(hist, StageOrder) /\ (pc = "done" <=> hist = StageOrder))
    /\ [][pc = "aborted" => UNCHANGED vars]_vars
    /\ [][(pc # "aborted" /\ pc' = "aborted") =>
            /\ logFile' = logFile
            /\ (Last(hist') # "SaveCSV" => csvFile' = csvFile)
            /\ (Last(hist') # "SaveDB" => db' = db)]_vars

\* a run aborted in SaveDB, the CSV file of this run written and kept
C1_Witness ==
    /\ pc = "aborted"
    /\ hist = SubSeq(StageOrder, 1, 6)
    /\ Len(df.rows) > 0
    /\ csvFile = ToCsv(df)

\* C5 as stated: a failure of the log write never ends the run.
C5_LogFailureSwallowed == ~(pc = "aborted" /\ err = LogError)

\* C5 as amended: a log_progress call whose write fails appends nothing
\* and ends the run there with the error of the write: the step changes
\* nothing but pc and err, and no stage executes after it.
C5_LogFailureAborts ==
    /\ [][(pc \in LogStatements /\ logFile' = logFile) =>
            /\ pc' = "aborted"
            /\ err' = LogError
            /\ UNCHANGED <<run, df, conn, csvFile, db, console, hist>>]_vars
    /\ [](err = LogError => pc = "aborted")

\* the log write failed after the connection was opened
C5_Witness == pc = "aborted" /\ err = LogError /\ conn = "open"

\* C7: after a second (or later) completed run the database holds exactly
\* one table, Largest_banks, whose rows are the rows of that run's final
\* frame in the frame's order.
C7_ReplaceSemantics ==
    (run >= 2 /\ pc = "done") =>
        /\ DOMAIN db = {table_name}
        /\ db[table_name].columns = df.columns
        /\ db[table_name].rows = SqlRows(df)

\* the second run's table is empty, the first run's had rows
C7_Witness ==
    /\ run = 2
    /\ pc = "done"
    /\ table_name \in DOMAIN dbBefore
    /\ Len(dbBefore[table_name].rows) > 1
    /\ df.rows = <<>>

\* C9: the connection is opened only by the connect statement, from the
\* state in which none was opened, with this run's CSV file written; the
\* table is written and queries run only while it is open; a completed
\* run has closed it; a run that ended in SaveDB or RunQueries leaves it
\* open.
C9_Connection ==
    /\ [](/\ conn = "open" => (Len(hist) >= 5 /\ hist[4] = "SaveCSV"
                                  /\ csvFile = ToCsv(df))
          /\ pc = "done" => conn = "closed"
          /\ (pc = "aborted" /\ Last(hist) \in {"SaveDB", "RunQueries"})
                => conn = "open")
    /\ [][(conn' = "open" /\ conn # "open") =>
            (conn = "none" /\ pc = "connect")]_vars
    /\ [][(db' # db \/ Len(console') > Len(console)) =>
            (conn = "open" /\ conn' = "open")]_vars

\* the second query failed: the run ended with the connection open
C9_Witness ==
    /\ pc = "aborted"
    /\ err = "DatabaseError"
    /\ Len(console) = 1
    /\ conn = "open"

\* C10: the log only grows; the lines of a run are a prefix of the eight
\* messages, never more than the stages that have completed; a completed
\* run has appended all eight, an aborted run the lines of the stages
\* before the one it aborted in and no other.
C10_LogPrefix ==
    /\ [](/\ IsPrefix(RunLog, Messages)
          /\ Len(RunLog) <= CompletedStages
          /\ pc = "done" => RunLog = Messages
          /\ pc = "aborted" => Len(RunLog) = Len(hist) - 1)
    /\ [][IsPrefix(logFile, logFile')]_vars

\* a second run aborted in Transform: its two lines follow the first run's
C10_Witness ==
    /\ run = 2
    /\ pc = "aborted"
    /\ err = "TypeError"
    /\ logFile = Messages \o SubSeq(Messages, 1, 2)

(***************************************************************************)
(* Properties of extract.                                                  *)
(***************************************************************************)
\* the loop of lines 52-61 has ended, by the return or by an exception
RowsRead == target_table.index > 0 /\ pc \in {"done", "aborted"}

\* the non-header rows with at least two cells, in document order
Retained == SelectSeq(DataRows(target_table.rows), LAMBDA r : Len(r) >= 2)

\* the market-cap cell of a row is missing or is not a number
NoCap(r) == Len(r) < 3 \/ r[3] = CapNA

\* tbody i of the page follows a heading labelled with the target text
Labelled(s, i) ==
    /\ s[i].tag = "tbody"
    /\ FindPreviousH2(s, i) > 0
    /\ s[FindPreviousH2(s, i)].span = TargetLabel

\* C2: extract returns one record per non-header row with at least two
\* cells (a row of exactly two cells included), in document order, and
\* none for a shorter row.
C2_OneRecordPerRow ==
    RowsRead =>
        /\ pc = "done"
        /\ Len(df.rows) = Len(Retained)
        /\ \A i \in 1..Len(Retained) :
              df.rows[i]["Name"] = Str(Strip(Retained[i][2]))

\* C3: a retained row whose market-cap cell is non-numeric or missing does
\* not make extract fail and gives a record with its name and a null
\* market cap.
C3_NullCapRetained ==
    RowsRead =>
        \A i \in 1..Len(Retained) :
            NoCap(Retained[i]) =>
                /\ pc = "done"
                /\ df.rows[i]["Name"] = Str(Strip(Retained[i][2]))
                /\ df.rows[i]["MC_USD_Billion"].k \in {"None", "nan"}

\* C6: extract selects the first tbody whose nearest preceding h2 has the
\* target label, and when the page has none it fails with the ValueError
\* of line 47.
C6_TargetTable ==
    pc # "find_table" =>
        IF \E i \in 1..Len(soup) : Labelled(soup, i)
        THEN /\ target_table.index > 0
             /\ Labelled(soup, target_table.index)
             /\ \A j \in 1..(target_table.index - 1) : ~Labelled(soup, j)
        ELSE pc = "aborted" /\ err = "ValueError"

(***************************************************************************)
(* Properties of transform.                                                *)
(***************************************************************************)
FiveColumns ==
    <<"Name", "MC_USD_Billion", "MC_GBP_Billion", "MC_EUR_Billion", "MC_INR_Billion">>

HasAllRates ==
    /\ exchange_rate.exists
    /\ exchange_rate.columns
    /\ {"GBP", "EUR", "INR"} \subseteq DOMAIN exchange_rate.rates

IsNull(x) == x.k \in {"None", "nan"}

\* C4: with a rate table holding GBP, EUR and INR transform completes on
\* every frame; a record with a null market cap gets three null derived
\* values, a record with a number gets round(market cap * rate, 2).
C4_NullPropagates ==
    (pc # "transform" /\ HasAllRates) =>
        /\ df1 # NoFrame
        /\ Len(df1.rows) = Len(df0.rows)
        /\ \A i \in 1..Len(df0.rows) : \A c \in {"GBP", "EUR", "INR"} :
              LET x == df0.rows[i]["MC_USD_Billion"]
                  y == df1.rows[i][ColumnOf(c)]
              IN  IF IsNull(x) THEN IsNull(y)
                  ELSE y = Float(RoundHalfEven(x.v * exchange_rate.rates[c]))

\* C8: a second transform with the same rate source succeeds wherever the
\* first did and returns the frame the first returned: the five columns in
\* their order, the same rows, Name and MC_USD_Billion as in the input.
C8_TransformIdempotent ==
    /\ pc = "aborted" => df1 = NoFrame
    /\ pc = "done" =>
        /\ df = df1
        /\ df.columns = FiveColumns
        /\ Len(df.rows) = Len(df0.rows)
        /\ \A i \in 1..Len(df0.rows) :
              /\ DOMAIN df.rows[i] = {FiveColumns[j] : j \in 1..Len(FiveColumns)}
              /\ \A c \in {"Name", "MC_USD_Billion"} : df.rows[i][c] = df0.rows[i][c]

\* transform applied twice to a frame with a number and a NaN
C8_Witness ==
    /\ pc = "done"
    /\ \E i, j \in 1..Len(df.rows) :
          /\ df.rows[i]["MC_USD_Billion"].k = "float"
          /\ df.rows[j]["MC_USD_Billion"].k = "nan"
          /\ df.rows[j]["MC_GBP_Billion"].k = "nan"
====
